---- MODULE Spec2Model ----
(***************************************************************************)
(* Model of tools/extract_video_vae_latents.py: the sharded manifest, the  *)
(* frame sampler, the data loader with its worker prefetch, the encode     *)
(* loop of main and the thread pool that persists the latents.             *)
(***************************************************************************)
EXTENDS Integers, Sequences, FiniteSets, TLC

\* ------------------------------------------------------------------ bounds
MaxWorld == 2          \* world sizes explored by the pipeline specification
MaxManifest == 3       \* manifest sizes explored by the pipeline specification
MaxShardWorld == 4     \* world sizes explored by the sharding specification
MaxShardManifest == 6  \* manifest sizes explored by the sharding specification
MaxLen == 18           \* longest video (in frames) given to the frame sampler
MaxBudget == 18        \* largest frame budget (--num_frames) given to it

\* ------------------------------------------------------- program constants
max_workers == 16      \* ThreadPoolExecutor(max_workers=16)
num_workers == 6       \* DataLoader(num_workers=6)
prefetch_factor == 2   \* DataLoader(prefetch_factor=2)
Granularity == 8       \* duration = ((len(frames) - 1) // 8) * 8 + 1

\* ------------------------------------------------------------ list helpers
Min(a, b) == IF a <= b THEN a ELSE b

Max(a, b) == IF a >= b THEN a ELSE b

\* list(range(n))
Range(n) == [i \in 1..n |-> i - 1]

\* s[:n] with Python's meaning of a negative n
SliceTo(s, n) ==
    IF n >= 0 THEN SubSeq(s, 1, Min(n, Len(s)))
    ELSE SubSeq(s, 1, Max(0, Len(s) + n))

\* s[start:stop:step] for 0 <= start, 0 <= stop <= len(s), step >= 1
Stride(s, start, stop, step) ==
    [k \in 1..((Max(stop - start, 0) + step - 1) \div step) |-> s[start + (k - 1) * step + 1]]

\* s * k
RECURSIVE Repeat(_, _)
Repeat(s, k) == IF k <= 0 THEN <<>> ELSE s \o Repeat(s, k - 1)

\* math.ceil(a / b) for a >= 0, b >= 1
CeilDiv(a, b) == (a + b - 1) \div b

SeqToSet(s) == {s[i] : i \in 1..Len(s)}

\* ------------------------------------------------------ DistributedSampler
\* DistributedSampler(dataset, num_replicas, rank, shuffle=False), drop_last
\* left at its default False: the index list is padded to a multiple of
\* num_replicas by repeating indices from its head, then strided by rank.
SamplerNumSamples(total, num_replicas) == CeilDiv(total, num_replicas)

SamplerTotalSize(total, num_replicas) == SamplerNumSamples(total, num_replicas) * num_replicas

SamplerPadded(total, num_replicas) ==
    LET indices == Range(total)
        padding_size == SamplerTotalSize(total, num_replicas) - total
    IN  IF padding_size <= Len(indices)
        THEN indices \o SliceTo(indices, padding_size)
        ELSE indices \o SliceTo(Repeat(indices, CeilDiv(padding_size, Len(indices))), padding_size)

\* a sampler that drops the tail instead of padding it
SamplerIndicesDropTail(total, num_replicas, rank) ==
    Stride(Range(total), rank, (total \div num_replicas) * num_replicas, num_replicas)

SamplerIndices(total, num_replicas, rank) ==
    Stride(SamplerPadded(total, num_replicas), rank,
           SamplerTotalSize(total, num_replicas), num_replicas)

\* ------------------------------------------------------------ frame sampler
\* A manifest entry's 'frames' field as process_one_video passes it on: a list
\* (iter = TRUE) or a value set() cannot iterate (iter = FALSE).
FrameIndexs(iter, list) == [iter |-> iter, list |-> list]

\* the alignment with the - 1 forgotten: (len(frames) // 8) * 8 + 1
DurationNoMinusOne(n) == (n \div Granularity) * Granularity + 1

\* duration = ((len(frames) - 1) // 8) * 8 + 1
Duration(n) == ((n - 1) \div Granularity) * Granularity + 1

\* load_video_and_transform at its entry: nframes is the number of frames the
\* file at video_path decodes to (0: no such file, or no readable stream);
\* corrupt is the index of a frame whose conversion raises (-1: none).
LoadStart(nframes, frame_indexs, frame_number, corrupt) ==
    [pc |-> "start", nframes |-> nframes, frame_indexs |-> frame_indexs,
     frame_number |-> frame_number, corrupt |-> corrupt,
     opened |-> FALSE, frame_index |-> 0, frames |-> <<>>, reads |-> 0,
     releases |-> 0, capped |-> 0, duration |-> 0, result |-> "pending"]

\* lines 64-71: set(frame_indexs) is outside the try, so its TypeError leaves
\* the function; then the capture is opened
LoadOpen(s) ==
    IF ~s.frame_indexs.iter
    THEN [s EXCEPT !.pc = "returned", !.result = "raise"]
    ELSE [s EXCEPT !.pc = "read", !.opened = TRUE]

\* the read loop without the break at the last requested index
LoadReadNoStop(s) ==
    LET list == s.frame_indexs.list
        flag == s.frame_index < s.nframes
        t    == [s EXCEPT !.reads = @ + 1]
    IN  IF ~flag THEN [t EXCEPT !.pc = "release"]
        ELSE IF s.frame_index \in SeqToSet(list)
             THEN IF s.frame_index = s.corrupt
                  THEN [t EXCEPT !.pc = "except"]
                  ELSE [t EXCEPT !.frames = Append(@, s.frame_index),
                                 !.frame_index = @ + 1]
             ELSE [t EXCEPT !.frame_index = @ + 1]

\* lines 73-87: one iteration of the read loop
LoadRead(s) ==
    LET list == s.frame_indexs.list
        flag == s.frame_index < s.nframes
        t    == [s EXCEPT !.reads = @ + 1]
    IN  IF ~flag THEN [t EXCEPT !.pc = "release"]
        ELSE IF Len(list) = 0 THEN [t EXCEPT !.pc = "except"]
        ELSE IF s.frame_index > list[Len(list)] THEN [t EXCEPT !.pc = "release"]
        ELSE IF s.frame_index \in SeqToSet(list)
             THEN IF s.frame_index = s.corrupt
                  THEN [t EXCEPT !.pc = "except"]
                  ELSE [t EXCEPT !.frames = Append(@, s.frame_index),
                                 !.frame_index = @ + 1]
             ELSE [t EXCEPT !.frame_index = @ + 1]

\* line 88
LoadRelease(s) == [s EXCEPT !.pc = "assemble", !.releases = @ + 1]

\* the assembly with the alignment computed before the cap to the budget
LoadAssembleAlignFirst(s) ==
    IF Len(s.frames) = 0
    THEN [s EXCEPT !.pc = "returned", !.result = "None"]
    ELSE LET aligned == SliceTo(s.frames, Duration(Len(s.frames)))
             capped  == SliceTo(aligned, s.frame_number)
         IN  IF Len(capped) = 0
             THEN [s EXCEPT !.pc = "except", !.capped = Len(capped),
                            !.duration = Duration(Len(s.frames)), !.frames = capped]
             ELSE [s EXCEPT !.pc = "returned", !.result = "tensor",
                            !.capped = Len(capped),
                            !.duration = Duration(Len(s.frames)), !.frames = capped]

\* lines 90-109: torch.stack raises on an empty list
LoadAssemble(s) ==
    IF Len(s.frames) = 0
    THEN [s EXCEPT !.pc = "returned", !.result = "None"]
    ELSE LET capped  == SliceTo(s.frames, s.frame_number)
             aligned == SliceTo(capped, Duration(Len(capped)))
         IN  IF Len(aligned) = 0
             THEN [s EXCEPT !.pc = "except", !.capped = Len(capped),
                            !.duration = Duration(Len(capped)), !.frames = aligned]
             ELSE [s EXCEPT !.pc = "returned", !.result = "tensor",
                            !.capped = Len(capped),
                            !.duration = Duration(Len(capped)), !.frames = aligned]

\* an except clause that returns without releasing the capture
LoadExceptNoRelease(s) == [s EXCEPT !.pc = "returned", !.result = "None"]

\* lines 112-117
LoadExcept(s) ==
    [s EXCEPT !.pc = "returned", !.result = "None",
              !.releases = IF s.opened THEN @ + 1 ELSE @]

LoadStep(s) ==
    CASE s.pc = "start"    -> LoadOpen(s)
      [] s.pc = "read"     -> LoadRead(s)
      [] s.pc = "release"  -> LoadRelease(s)
      [] s.pc = "assemble" -> LoadAssemble(s)
      [] s.pc = "except"   -> LoadExcept(s)
      [] OTHER             -> s

\* the call run to its return: each step is taken once and the state it
\* gives is what the run goes on from
RECURSIVE LoadRun(_)
LoadRun(s) ==
    IF s.pc = "returned" THEN s
    ELSE CHOOSE u \in {LoadRun(t) : t \in {LoadStep(s)}} : TRUE

\* load_video_and_transform as a function of its arguments
load_video_and_transform(nframes, frame_indexs, frame_number, corrupt) ==
    LoadRun(LoadStart(nframes, frame_indexs, frame_number, corrupt))

\* ------------------------------------------------------------- VideoDataset
\* One line of the annotation file. video and latent are the two paths;
\* has_keys is FALSE when the line lacks 'video' or 'latent'; has_frames tells
\* whether it carries a 'frames' field (frames); nframes and corrupt describe
\* the file found at the video path.
Entry(video, latent, has_keys, has_frames, frames, nframes, corrupt) ==
    [video |-> video, latent |-> latent, has_keys |-> has_keys,
     has_frames |-> has_frames, frames |-> frames, nframes |-> nframes,
     corrupt |-> corrupt]

\* lines 144-179: the key lookups of lines 148-149 are outside the try (their
\* KeyError leaves the method); whatever the loader raises is caught
process_one_video(video_item, num_frames) ==
    IF ~video_item.has_keys THEN [raised |-> TRUE, tasks |-> <<>>]
    ELSE
      LET frame_indexs == IF video_item.has_frames THEN video_item.frames
                          ELSE FrameIndexs(TRUE, Range(num_frames))
          r == load_video_and_transform(video_item.nframes, frame_indexs,
                                        num_frames, video_item.corrupt)
      IN  IF r.result = "tensor"
          THEN [raised |-> FALSE,
                tasks |-> << [video |-> video_item.video,
                              input |-> [video |-> video_item.video, frames |-> r.frames],
                              output |-> video_item.latent] >>]
          ELSE [raised |-> FALSE, tasks |-> <<>>]

\* __getitem__ without its try/except
GetItemUnguarded(annotation, index, num_frames) ==
    IF index \notin DOMAIN annotation
    THEN [raised |-> TRUE, tasks |-> <<>>]
    ELSE process_one_video(annotation[index], num_frames)

\* lines 184-194: annotation is the list read by __init__, indexed from 0
GetItem(annotation, index, num_frames) ==
    IF index \notin DOMAIN annotation
    THEN [raised |-> FALSE, tasks |-> <<>>]
    ELSE LET r == process_one_video(annotation[index], num_frames)
         IN  IF r.raised THEN [raised |-> FALSE, tasks |-> <<>>] ELSE r

\* lines 197-198
DatasetLen(annotation) == Cardinality(DOMAIN annotation)

\* --------------------------------------------------------------- collate_fn
\* an inner loop that puts each output path at the head of its list
RECURSIVE CollateOneOutputFirst(_, _)
CollateOneOutputFirst(return_batch, videos_) ==
    IF Len(videos_) = 0 THEN return_batch
    ELSE CollateOneOutputFirst(
             [input  |-> Append(return_batch.input, Head(videos_).input),
              output |-> <<Head(videos_).output>> \o return_batch.output],
             Tail(videos_))

\* the inner loop of lines 242-244 over one dataset result
RECURSIVE CollateOne(_, _)
CollateOne(return_batch, videos_) ==
    IF Len(videos_) = 0 THEN return_batch
    ELSE CollateOne([input  |-> Append(return_batch.input, Head(videos_).input),
                     output |-> Append(return_batch.output, Head(videos_).output)],
                    Tail(videos_))

\* lines 241-246
RECURSIVE CollateLoop(_, _)
CollateLoop(return_batch, batch) ==
    IF Len(batch) = 0 THEN return_batch
    ELSE CollateLoop(CollateOne(return_batch, Head(batch)), Tail(batch))

\* lines 235-246
collate_fn(batch) == CollateLoop([input |-> <<>>, output |-> <<>>], batch)

\* ------------------------------------------------------------ DataLoader
\* the batch sampler of DataLoader(batch_size, sampler, drop_last=True)
NumBatchesDropLast(shard, batch_size) == Len(shard) \div batch_size

\* the batch sampler of DataLoader(batch_size, sampler, drop_last=False)
NumBatches(shard, batch_size) == CeilDiv(Len(shard), batch_size)

\* the indices of batch b (counted from 0)
BatchIndices(shard, batch_size, b) ==
    SubSeq(shard, b * batch_size + 1, Min((b + 1) * batch_size, Len(shard)))

\* what a loader worker does for one batch: dataset[i] for each index, then
\* collate_fn. A __getitem__ that raises ends the worker with that exception.
FetchBatch(annotation, idxs, num_frames) ==
    LET got == [j \in 1..Len(idxs) |-> GetItem(annotation, idxs[j], num_frames)]
    IN  [raised |-> \E j \in 1..Len(idxs) : got[j].raised,
         batch  |-> collate_fn([j \in 1..Len(idxs) |-> got[j].tasks])]

\* --------------------------------------------------------------- save_tensor
\* a save_tensor without the try/except: the I/O error leaves the function
save_tensor_unguarded(output_path, unwritable) ==
    [written |-> output_path \notin unwritable,
     raised  |-> output_path \in unwritable, result |-> "None"]

\* a save_tensor that returns the error it caught instead of passing
save_tensor_reporting(output_path, unwritable) ==
    [written |-> output_path \notin unwritable, raised |-> FALSE,
     result  |-> IF output_path \in unwritable THEN "error" ELSE "None"]

\* lines 275-282: torch.save fails on the paths of unwritable (missing
\* directory, full disk, no permission); the exception is swallowed and the
\* function returns None either way
save_tensor(output_path, unwritable) ==
    [written |-> output_path \notin unwritable, raised |-> FALSE, result |-> "None"]

\* future.result(): the value returned by the task, or its exception raised
FutureResult(future) == [raised |-> future.exception, value |-> future.result]

\* --------------------------------------------------------------------- state
VARIABLES
    world_size,   \* args.world_size
    batch_size,   \* args.batch_size
    num_frames,   \* args.num_frames
    annotation,   \* VideoDataset.annotation: index (from 0) -> Entry
    unwritable,   \* the output paths torch.save cannot write
    stalled,      \* the output paths on which torch.save never returns
    pc,           \* rank -> where main is
    shard,        \* rank -> the index list of the rank's sampler
    send_idx,     \* rank -> number of batches handed to loader workers
    rcvd_idx,     \* rank -> number of batches pulled by the encode loop
    data,         \* rank -> (batch number -> batch fetched, not yet pulled)
    sample,       \* rank -> the batch the encode loop is working on
    pos,          \* rank -> position of the next item of sample (from 1)
    encoded,      \* rank -> the video paths passed to encode_latent, in order
    task_queue,   \* rank -> the futures returned by executor.submit, in order
    collected,    \* rank -> what future.result() gave for each future in the drain
    cause,        \* rank -> what raised on the main thread, if anything
    files,        \* the output files on disk: records [path, latent]
    ld            \* one call of load_video_and_transform, stepwise

cfg == <<world_size, batch_size, num_frames, annotation, unwritable, stalled>>

loaderv == <<shard, send_idx, rcvd_idx, data>>

mainv == <<sample, pos, encoded, collected, cause>>

vars == <<cfg, pc, loaderv, mainv, task_queue, files, ld>>

Ranks == 0..(world_size - 1)

EmptyBatch == [input |-> <<>>, output |-> <<>>]

\* the state of the load call while no call is being followed
LoadIdle == LoadStart(0, FrameIndexs(TRUE, <<>>), 0, -1)

\* state of every rank before main has built anything
InitRanks ==
    /\ pc = [r \in Ranks |-> "init"]
    /\ shard = [r \in Ranks |-> <<>>]
    /\ send_idx = [r \in Ranks |-> 0]
    /\ rcvd_idx = [r \in Ranks |-> 0]
    /\ data = [r \in Ranks |-> <<>>]
    /\ sample = [r \in Ranks |-> EmptyBatch]
    /\ pos = [r \in Ranks |-> 1]
    /\ encoded = [r \in Ranks |-> <<>>]
    /\ task_queue = [r \in Ranks |-> <<>>]
    /\ collected = [r \in Ranks |-> <<>>]
    /\ cause = [r \in Ranks |-> "none"]
    /\ files = {}

\* ------------------------------------------------------------------- actions
\* lines 288-307: main up to the first barrier; build_data_loader reads the
\* whole annotation file and gives the rank its sampler
BuildDataLoader(r) ==
    /\ pc[r] = "init"
    /\ shard' = [shard EXCEPT ![r] = SamplerIndices(DatasetLen(annotation), world_size, r)]
    /\ pc' = [pc EXCEPT ![r] = "barrier1"]
    /\ UNCHANGED <<cfg, send_idx, rcvd_idx, data, mainv, task_queue, files, ld>>

\* torch.distributed.barrier() returns once every rank has called it
\* a barrier that forgets the ranks it has already let through
BarrierForgetful(waiting, passed) == \A q \in Ranks : pc[q] = waiting

\* a barrier that lets every caller through at once
BarrierAbsent(waiting, passed) == TRUE

BarrierOpen(waiting, passed) == \A q \in Ranks : pc[q] \in {waiting} \cup passed

AfterBarrier1 == {"encoding", "draining", "unwinding", "raised", "barrier2", "done"}

\* a loader that keeps one more batch per worker in flight
PrefetchLimitThreePerWorker == (prefetch_factor + 1) * num_workers

\* lines 259-269: the loader keeps at most prefetch_factor batches per worker
\* in flight, over all its workers prefetch_factor * num_workers
PrefetchLimit == prefetch_factor * num_workers

\* lines 307-321: the first barrier returns, the executor is created and the
\* loop asks the loader for its iterator, which hands the first
\* prefetch_factor * num_workers batches to the loader workers
EnterLoop(r) ==
    /\ pc[r] = "barrier1"
    /\ BarrierOpen("barrier1", AfterBarrier1)
    /\ pc' = [pc EXCEPT ![r] = "encoding"]
    /\ send_idx' = [send_idx EXCEPT ![r] =
           Min(NumBatches(shard[r], batch_size), PrefetchLimit)]
    /\ UNCHANGED <<cfg, shard, rcvd_idx, data, mainv, task_queue, files, ld>>

\* a loader worker finishes batch b: batches go to the workers round robin and
\* each worker takes its own in order
WorkerFetch(r, b) ==
    /\ pc[r] \in {"encoding"}
    /\ b \in rcvd_idx[r]..(send_idx[r] - 1)
    /\ b \notin DOMAIN data[r]
    /\ b - num_workers >= rcvd_idx[r] => (b - num_workers) \in DOMAIN data[r]
    /\ data' = [data EXCEPT ![r] =
           [x \in DOMAIN data[r] \cup {b} |->
               IF x = b
               THEN FetchBatch(annotation, BatchIndices(shard[r], batch_size, b), num_frames)
               ELSE data[r][x]]]
    /\ UNCHANGED <<cfg, pc, shard, send_idx, rcvd_idx, mainv, task_queue, files, ld>>

\* number of (input, output) pairs zip() yields for the current batch
SampleLen(r) == Min(Len(sample[r].input), Len(sample[r].output))

\* line 321: the loop pulls the next batch, in batch order, and the loader
\* hands one more batch to the workers; an exception of a worker is raised here
NextBatch(r) ==
    /\ pc[r] = "encoding"
    /\ pos[r] > SampleLen(r)
    /\ rcvd_idx[r] < NumBatches(shard[r], batch_size)
    /\ rcvd_idx[r] \in DOMAIN data[r]
    /\ LET got == data[r][rcvd_idx[r]]
       IN  /\ data' = [data EXCEPT ![r] = [x \in DOMAIN data[r] \ {rcvd_idx[r]} |-> data[r][x]]]
           /\ rcvd_idx' = [rcvd_idx EXCEPT ![r] = @ + 1]
           /\ send_idx' = [send_idx EXCEPT ![r] =
                  IF @ < NumBatches(shard[r], batch_size) THEN @ + 1 ELSE @]
           /\ IF got.raised
              THEN /\ pc' = [pc EXCEPT ![r] = "unwinding"]
                   /\ cause' = [cause EXCEPT ![r] = "loader"]
                   /\ UNCHANGED <<sample, pos>>
              ELSE /\ sample' = [sample EXCEPT ![r] = got.batch]
                   /\ pos' = [pos EXCEPT ![r] = 1]
                   /\ UNCHANGED <<pc, cause>>
    /\ UNCHANGED <<cfg, shard, encoded, collected, task_queue, files, ld>>

\* a submit that waits for a free thread when the pool is busy
SubmitReadyWhenIdle(r) ==
    Cardinality({t \in 1..Len(task_queue[r]) : task_queue[r][t].state = "RUNNING"}) < max_workers

\* line 337: executor.submit puts the task on the unbounded work queue of the
\* pool and returns the future; it waits for no thread and no task
SubmitReady(r) == TRUE

\* lines 328-337: one turn of the inner loop: encode_latent on the main
\* thread, the latent moved to the CPU, save_tensor submitted to the pool
EncodeItem(r) ==
    /\ pc[r] = "encoding"
    /\ pos[r] <= SampleLen(r)
    /\ SubmitReady(r)
    /\ LET video_input == sample[r].input[pos[r]]
           output_path == sample[r].output[pos[r]]
           video_latent == [video |-> video_input.video]
       IN  /\ encoded' = [encoded EXCEPT ![r] = Append(@, video_input.video)]
           /\ task_queue' = [task_queue EXCEPT ![r] =
                  Append(@, [latent |-> video_latent, output_path |-> output_path,
                             state |-> "PENDING", exception |-> FALSE,
                             result |-> "unset"])]
    /\ pos' = [pos EXCEPT ![r] = @ + 1]
    /\ UNCHANGED <<cfg, pc, loaderv, sample, collected, cause, files, ld>>

\* line 330: encode_latent raises (out of memory, a lost device); nothing in
\* main catches it, so the with block is left through executor.__exit__
EncodeRaise(r) ==
    /\ pc[r] = "encoding"
    /\ pos[r] <= SampleLen(r)
    /\ pc' = [pc EXCEPT ![r] = "unwinding"]
    /\ cause' = [cause EXCEPT ![r] = "encode"]
    /\ UNCHANGED <<cfg, loaderv, sample, pos, encoded, collected, task_queue, files, ld>>

\* line 321: the loader is exhausted and the for loop ends
LoopEnd(r) ==
    /\ pc[r] = "encoding"
    /\ pos[r] > SampleLen(r)
    /\ rcvd_idx[r] >= NumBatches(shard[r], batch_size)
    /\ pc' = [pc EXCEPT ![r] = "draining"]
    /\ UNCHANGED <<cfg, loaderv, mainv, task_queue, files, ld>>

Running(r) == {t \in 1..Len(task_queue[r]) : task_queue[r][t].state = "RUNNING"}

Pending(r) == {t \in 1..Len(task_queue[r]) : task_queue[r][t].state = "PENDING"}

Finished(r) == {t \in 1..Len(task_queue[r]) : task_queue[r][t].state = "FINISHED"}

\* a pool that starts a thread for every submitted task
PoolHasFreeThreadUnbounded(r) == Cardinality(Running(r)) >= 0

\* ThreadPoolExecutor(max_workers=16): at most max_workers threads, each
\* running one task at a time
PoolHasFreeThread(r) == Cardinality(Running(r)) < max_workers

\* a pool thread takes the oldest queued task
PoolStart(r, t) ==
    /\ t \in Pending(r)
    /\ \A u \in Pending(r) : t <= u
    /\ PoolHasFreeThread(r)
    /\ task_queue' = [task_queue EXCEPT ![r][t].state = "RUNNING"]
    /\ UNCHANGED <<cfg, pc, loaderv, mainv, files, ld>>

\* a pool thread returns from save_tensor and completes the future; nothing
\* bounds the time of a write, and a write to a stalled path never returns
PoolFinish(r, t) ==
    /\ t \in Running(r)
    /\ task_queue[r][t].output_path \notin stalled
    /\ LET task == task_queue[r][t]
           out  == save_tensor(task.output_path, unwritable)
       IN  /\ task_queue' = [task_queue EXCEPT ![r][t] =
                  [@ EXCEPT !.state = "FINISHED", !.exception = out.raised,
                            !.result = out.result]]
           /\ files' = IF out.written
                       THEN {f \in files : f.path # task.output_path}
                            \cup {[path |-> task.output_path, latent |-> task.latent]}
                       ELSE files
    /\ UNCHANGED <<cfg, pc, loaderv, mainv, ld>>

\* a drain that does not wait: the as_completed loop left out and the pool
\* shut down with wait=False
DrainNoWait(r) ==
    /\ pc[r] = "draining"
    /\ pc' = [pc EXCEPT ![r] = "barrier2"]
    /\ UNCHANGED <<cfg, loaderv, mainv, task_queue, files, ld>>

\* lines 340-343: as_completed yields every future once it is finished and
\* result() re-raises the exception of a task; when all are collected the
\* with block ends and main arrives at the second barrier
Drain(r) ==
    /\ pc[r] = "draining"
    /\ IF \E t \in Finished(r) : task_queue[r][t].exception
       THEN /\ pc' = [pc EXCEPT ![r] = "unwinding"]
            /\ cause' = [cause EXCEPT ![r] = "write"]
            /\ UNCHANGED collected
       ELSE /\ Finished(r) = 1..Len(task_queue[r])
            /\ collected' = [collected EXCEPT ![r] =
                   [t \in 1..Len(task_queue[r]) |-> FutureResult(task_queue[r][t])]]
            /\ pc' = [pc EXCEPT ![r] = "barrier2"]
            /\ UNCHANGED cause
    /\ UNCHANGED <<cfg, loaderv, sample, pos, encoded, task_queue, files, ld>>

\* an exit of the with block that lets the exception out without joining the
\* pool threads
UnwindNoJoin(r) ==
    /\ pc[r] = "unwinding"
    /\ pc' = [pc EXCEPT ![r] = "raised"]
    /\ UNCHANGED <<cfg, loaderv, mainv, task_queue, files, ld>>

\* executor.__exit__ on an exception: shutdown(wait=True) joins the pool
\* threads, then the exception leaves main
Unwind(r) ==
    /\ pc[r] = "unwinding"
    /\ Finished(r) = 1..Len(task_queue[r])
    /\ pc' = [pc EXCEPT ![r] = "raised"]
    /\ UNCHANGED <<cfg, loaderv, mainv, task_queue, files, ld>>

\* a return from main that does not wait for the other ranks
FinishAlone(r) ==
    /\ pc[r] = "barrier2"
    /\ pc' = [pc EXCEPT ![r] = "done"]
    /\ UNCHANGED <<cfg, loaderv, mainv, task_queue, files, ld>>

\* line 343: the second barrier returns and main returns
Finish(r) ==
    /\ pc[r] = "barrier2"
    /\ BarrierOpen("barrier2", {"done"})
    /\ pc' = [pc EXCEPT ![r] = "done"]
    /\ UNCHANGED <<cfg, loaderv, mainv, task_queue, files, ld>>

\* one step of the load_video_and_transform call being followed
LoadAdvance ==
    /\ ld.pc # "returned"
    /\ ld' = LoadStep(ld)
    /\ UNCHANGED <<cfg, pc, loaderv, mainv, task_queue, files>>

\* ------------------------------------------------------------ manifests
PipeFrames == 9    \* the frame budget the pipeline specifications run with
MaxBatch == 2      \* batch sizes explored by the pipeline specification

\* the kinds of manifest line the specifications draw from
MakeEntry(i, kind) ==
    CASE kind = "good"      -> Entry(i, i, TRUE, FALSE, FrameIndexs(TRUE, <<>>), PipeFrames + 1, -1)
      [] kind = "missing"   -> Entry(i, i, TRUE, FALSE, FrameIndexs(TRUE, <<>>), 0, -1)
      [] kind = "short"     -> Entry(i, i, TRUE, TRUE, FrameIndexs(TRUE, <<PipeFrames + 1>>), PipeFrames + 1, -1)
      [] kind = "corrupt"   -> Entry(i, i, TRUE, FALSE, FrameIndexs(TRUE, <<>>), PipeFrames + 1, 0)
      [] kind = "noframes"  -> Entry(i, i, TRUE, TRUE, FrameIndexs(TRUE, <<>>), PipeFrames + 1, -1)
      [] kind = "badframes" -> Entry(i, i, TRUE, TRUE, FrameIndexs(FALSE, <<>>), PipeFrames + 1, -1)
      [] kind = "nokey"     -> Entry(i, i, FALSE, FALSE, FrameIndexs(TRUE, <<>>), PipeFrames + 1, -1)

Manifests(m, kinds) ==
    {[i \in 0..(m - 1) |-> MakeEntry(i, k[i])] : k \in [0..(m - 1) -> kinds]}

\* ------------------------------------------------------------ specifications
\* the futures and the batch numbers that exist on rank r
Tasks(r) == 1..Len(task_queue[r])

Batches(r) == 0..(NumBatches(shard[r], batch_size) - 1)

\* The pipeline on a process group: every rank runs main.
Init ==
    /\ world_size \in 1..MaxWorld
    /\ batch_size \in 1..MaxBatch
    /\ num_frames = PipeFrames
    /\ \E m \in 0..MaxManifest : annotation \in Manifests(m, {"good", "missing"})
    /\ unwritable = {}
    /\ stalled = {}
    /\ InitRanks
    /\ ld = LoadIdle

Next ==
    \/ \E r \in Ranks : BuildDataLoader(r)
    \/ \E r \in Ranks : EnterLoop(r)
    \/ \E r \in Ranks : \E b \in Batches(r) : WorkerFetch(r, b)
    \/ \E r \in Ranks : NextBatch(r)
    \/ \E r \in Ranks : EncodeItem(r)
    \/ \E r \in Ranks : EncodeRaise(r)
    \/ \E r \in Ranks : LoopEnd(r)
    \/ \E r \in Ranks : \E t \in Tasks(r) : PoolStart(r, t)
    \/ \E r \in Ranks : \E t \in Tasks(r) : PoolFinish(r, t)
    \/ \E r \in Ranks : Drain(r)
    \/ \E r \in Ranks : Unwind(r)
    \/ \E r \in Ranks : Finish(r)

Spec == Init /\ [][Next]_vars

\* The pipeline on one process, with output paths that cannot be written.
InitSingle ==
    /\ world_size = 1
    /\ batch_size \in 1..MaxBatch
    /\ num_frames = PipeFrames
    /\ \E m \in 0..MaxManifest : annotation \in Manifests(m, {"good", "missing"})
    /\ unwritable \in SUBSET {annotation[i].latent : i \in DOMAIN annotation}
    /\ stalled = {}
    /\ InitRanks
    /\ ld = LoadIdle

SpecSingle == InitSingle /\ [][Next]_vars

\* The sampler alone, over more manifest sizes and world sizes.
InitShard ==
    /\ world_size \in 1..MaxShardWorld
    /\ batch_size = 1
    /\ num_frames = PipeFrames
    /\ \E m \in 0..MaxShardManifest : annotation \in Manifests(m, {"good"})
    /\ unwritable = {}
    /\ stalled = {}
    /\ InitRanks
    /\ ld = LoadIdle

NextShard == \E r \in Ranks : BuildDataLoader(r)

SpecShard == InitShard /\ [][NextShard]_vars

\* every kind of manifest line
EntryKinds == {"good", "missing", "short", "corrupt", "noframes", "badframes", "nokey"}

InitRun ==
    /\ world_size = 1
    /\ batch_size \in 1..MaxBatch
    /\ num_frames = PipeFrames
    /\ \E m \in 0..MaxManifest : annotation \in Manifests(m, EntryKinds)
    /\ unwritable = {}
    /\ stalled = {}
    /\ InitRanks
    /\ ld = LoadIdle

\* One process with more batches than the loader prefetches: batches of one
\* entry, of which only the first may be a video that loads.
PrefetchBatches == 13

InitPrefetch ==
    /\ world_size = 1
    /\ batch_size = 1
    /\ num_frames = PipeFrames
    /\ \E k \in {"good", "missing"} :
           annotation = [i \in 0..(PrefetchBatches - 1) |->
                            MakeEntry(i, IF i = 0 THEN k ELSE "missing")]
    /\ unwritable = {}
    /\ stalled = {}
    /\ InitRanks
    /\ ld = LoadIdle

\* One process with more latents to write than the pool has threads.
\* The storage stalls on the first entries of the manifest (any number of
\* them from PoolTasks - PoolFree on), so that the writes that hold a thread
\* outnumber the threads while the others complete in every order.
PoolTasks == 18

PoolFree == 8

InitPool ==
    /\ world_size = 1
    /\ batch_size = PoolTasks
    /\ num_frames = PipeFrames
    /\ annotation \in Manifests(PoolTasks, {"good"})
    /\ unwritable = {}
    /\ \E n \in (PoolTasks - PoolFree)..PoolTasks :
           stalled = {annotation[i].latent : i \in 0..(n - 1)}
    /\ InitRanks
    /\ ld = LoadIdle

\* main with an encoder that does not raise
NextRun ==
    \/ \E r \in Ranks : BuildDataLoader(r)
    \/ \E r \in Ranks : EnterLoop(r)
    \/ \E r \in Ranks : NextBatch(r)
    \/ \E r \in Ranks : EncodeItem(r)
    \/ \E r \in Ranks : LoopEnd(r)
    \/ \E r \in Ranks : \E t \in Tasks(r) : PoolStart(r, t)
    \/ \E r \in Ranks : \E t \in Tasks(r) : PoolFinish(r, t)
    \/ \E r \in Ranks : Drain(r)
    \/ \E r \in Ranks : Finish(r)
    \/ \E r \in Ranks : \E b \in Batches(r) : WorkerFetch(r, b)

SpecPrefetch == InitPrefetch /\ [][NextRun]_vars

\* The pipeline on a process group without fatal failures, on a storage where
\* at most one write never returns. Every thread of every process that can
\* take a step is scheduled sooner or later: the operating system starves
\* none of them, so a run does not stop while a step is possible.
LiveManifest == 2

InitLive ==
    /\ world_size \in 1..MaxWorld
    /\ batch_size \in 1..MaxBatch
    /\ num_frames = PipeFrames
    /\ \E m \in 0..LiveManifest : annotation \in Manifests(m, {"good", "missing"})
    /\ unwritable = {}
    /\ stalled \in {{}} \cup {{annotation[i].latent} : i \in DOMAIN annotation}
    /\ InitRanks
    /\ ld = LoadIdle

SpecLive == InitLive /\ [][NextRun]_vars /\ WF_vars(NextRun)

\* main and its pool while some write never returns: the drain cannot end
NextStalled ==
    \/ \E r \in Ranks : BuildDataLoader(r)
    \/ \E r \in Ranks : EnterLoop(r)
    \/ \E r \in Ranks : \E b \in Batches(r) : WorkerFetch(r, b)
    \/ \E r \in Ranks : NextBatch(r)
    \/ \E r \in Ranks : EncodeItem(r)
    \/ \E r \in Ranks : LoopEnd(r)
    \/ \E r \in Ranks : \E t \in Tasks(r) : PoolStart(r, t)
    \/ \E r \in Ranks : \E t \in Tasks(r) : PoolFinish(r, t)

SpecPool == InitPool /\ [][NextStalled]_vars

\* One process over every kind of manifest line, from start to return, the
\* encoder and the storage working.
SpecRun == InitRun /\ [][NextRun]_vars

\* One call of load_video_and_transform, step by step.
FrameLists ==
    {FrameIndexs(TRUE, Range(n)) : n \in 0..MaxLen}
    \cup {FrameIndexs(TRUE, [i \in 1..n |-> 2 * i + 1]) : n \in 1..3}
    \cup {FrameIndexs(FALSE, <<>>)}

InitLoad ==
    /\ world_size = 1
    /\ batch_size = 1
    /\ num_frames = PipeFrames
    /\ annotation = <<>>
    /\ unwritable = {}
    /\ stalled = {}
    /\ InitRanks
    /\ \E n \in 0..MaxLen, f \in FrameLists, b \in 0..MaxBudget, c \in {-1, 0, 3} :
           ld = LoadStart(n, f, b, c)

NextLoad == LoadAdvance

SpecLoad == InitLoad /\ [][NextLoad]_vars

\* ==================================================================== claims
Built(r) == pc[r] # "init"

\* the manifest indices of the shard of rank r
ShardSet(r) == SeqToSet(shard[r])

\* C1 (as stated): the shards of the ranks that have built their loader are
\* pairwise disjoint and no shard holds an index twice.
C1_ShardsDisjoint ==
    /\ \A r1, r2 \in Ranks :
           (Built(r1) /\ Built(r2) /\ r1 # r2) => ShardSet(r1) \cap ShardSet(r2) = {}
    /\ \A r \in Ranks :
           Built(r) => \A j, k \in 1..Len(shard[r]) : j # k => shard[r][j] # shard[r][k]

\* C2: once every rank has built its loader, every manifest index 0..M-1 is in
\* the shard of some rank, and the shard of a rank is the sequence
\* (rank + k * W) mod M, k = 0..ceil(M/W)-1, which depends on (M, W, rank) only.
C2_ShardsCoverAndDetermined ==
    LET M == DatasetLen(annotation)
    IN  /\ (\A r \in Ranks : Built(r)) =>
               \A i \in 0..(M - 1) : \E r \in Ranks : i \in ShardSet(r)
        /\ \A r \in Ranks : Built(r) =>
               /\ Len(shard[r]) = CeilDiv(M, world_size)
               /\ \A k \in 1..Len(shard[r]) :
                      shard[r][k] = (r + (k - 1) * world_size) % M

\* C2 witness: all ranks built, on a manifest that does not divide evenly
C2_Witness ==
    /\ \A r \in Ranks : Built(r)
    /\ world_size = 4
    /\ DatasetLen(annotation) = 6

\* the load call has computed its aligned count from F >= 1 capped frames
Aligned == ld.pc \in {"returned", "except"} /\ ld.capped >= 1

\* C3: for every frame count F >= 1 left after the cap, the aligned count is
\* A = ((F-1)//8)*8 + 1, with 1 <= A <= F, A mod 8 = 1, A the largest number
\* <= F of the form 8k+1 (so F - A < 8), and A frames are returned.
C3_Alignment ==
    Aligned =>
        LET F == ld.capped
            A == ld.duration
        IN  /\ A = ((F - 1) \div 8) * 8 + 1
            /\ 1 <= A /\ A <= F
            /\ A % 8 = 1
            /\ F - A < 8
            /\ \A k \in 0..F : 8 * k + 1 <= F => 8 * k + 1 <= A
            /\ ld.result = "tensor" /\ Len(ld.frames) = A

\* C3 witness: 18 frames are left after the cap and 17 are kept
C3_Witness == Aligned /\ ld.capped = 18 /\ ld.duration = 17 /\ ld.result = "tensor"

\* main has left the with block of the pool normally
Drained(r) == pc[r] \in {"barrier2", "done"}

\* the write of future t of rank r failed
WriteFailed(r, t) ==
    /\ task_queue[r][t].state = "FINISHED"
    /\ task_queue[r][t].output_path \in unwritable

\* C4: the k-th latent produced by encode_latent is the latent of the k-th
\* submitted persistence task and of no other (one task per latent), and once
\* main is past the drain (at or beyond the final barrier) every submitted
\* task has finished, successfully or not.
C4_OneTaskPerLatentAllDone ==
    \A r \in Ranks :
        /\ Len(task_queue[r]) = Len(encoded[r])
        /\ \A t \in 1..Len(task_queue[r]) : task_queue[r][t].latent.video = encoded[r][t]
        /\ Drained(r) => \A t \in 1..Len(task_queue[r]) : task_queue[r][t].state = "FINISHED"

\* C4 witness: main returned with three latents, one write failed
C4_Witness ==
    /\ pc[0] = "done"
    /\ Len(encoded[0]) = 3
    /\ \E t \in 1..Len(task_queue[0]) : WriteFailed(0, t)

\* C5: on every rank, at every moment, at most 16 save_tensor calls are
\* executing.
C5_AtMostSixteenWrites == \A r \in Ranks : Cardinality(Running(r)) <= 16

\* C5 witness: 16 writes are executing while another waits in the queue and
\* some write has completed
C5_Witness ==
    /\ Cardinality(Running(0)) = 16
    /\ Pending(0) # {}
    /\ Finished(0) # {}

\* the frame indices process_one_video asks for
Requested(e) == IF e.has_frames THEN e.frames.list ELSE Range(num_frames)

\* the manifest line e yields frames: it has its keys and a list of indices,
\* the file holds a requested frame, no requested frame of the file fails to
\* convert, and the budget is not zero
EntryLoads(e) ==
    /\ e.has_keys
    /\ e.frames.iter
    /\ num_frames >= 1
    /\ \E j \in 1..Len(Requested(e)) : Requested(e)[j] < e.nframes
    /\ ~(e.corrupt \in SeqToSet(Requested(e)) /\ e.corrupt < e.nframes)

\* the videos of the entries of an index list that load, in list order
RECURSIVE LoadableOf(_)
LoadableOf(idxs) ==
    IF Len(idxs) = 0 THEN <<>>
    ELSE (IF EntryLoads(annotation[Head(idxs)]) THEN <<annotation[Head(idxs)].video>> ELSE <<>>)
         \o LoadableOf(Tail(idxs))

\* C6: a failing write is isolated. No future ever holds an exception and
\* nothing a write does raises on the main thread; when main is past the
\* drain, every item of the shard that loads was encoded, every task has
\* finished, and exactly the files of the writable paths exist.
C6_WriteFailureIsolated ==
    \A r \in Ranks :
        /\ cause[r] \notin {"write", "loader"}
        /\ \A t \in 1..Len(task_queue[r]) : ~task_queue[r][t].exception
        /\ Drained(r) =>
              /\ encoded[r] = LoadableOf(shard[r])
              /\ \A t \in 1..Len(task_queue[r]) :
                    /\ task_queue[r][t].state = "FINISHED"
                    /\ task_queue[r][t].output_path \notin unwritable =>
                          [path |-> task_queue[r][t].output_path,
                           latent |-> task_queue[r][t].latent] \in files
                    /\ task_queue[r][t].output_path \in unwritable =>
                          \A f \in files : f.path # task_queue[r][t].output_path

\* C6 witness: a write failed, a write submitted after it succeeded, and main
\* returned
C6_Witness ==
    /\ pc[0] = "done"
    /\ \E t, u \in 1..Len(task_queue[0]) :
           /\ t < u
           /\ WriteFailed(0, t)
           /\ \E f \in files : f.path = task_queue[0][u].output_path

C8_BadEntryDropsOnlyItself ==
    \A r \in Ranks :
        /\ cause[r] = "none"
        /\ pc[r] \notin {"unwinding", "raised"}
        /\ \A b \in DOMAIN data[r] :
              LET idxs == BatchIndices(shard[r], batch_size, b)
                  good == LoadableOf(idxs)
              IN  /\ ~data[r][b].raised
                  /\ Len(data[r][b].batch.input) = Len(good)
                  /\ Len(data[r][b].batch.output) = Len(good)
                  /\ \A k \in 1..Len(good) :
                        /\ data[r][b].batch.input[k].video = good[k]
                        /\ \E i \in DOMAIN annotation :
                              /\ annotation[i].video = good[k]
                              /\ annotation[i].latent = data[r][b].batch.output[k]

\* C8 witness: a fetched batch of two entries, one that raises while loading
\* and one that loads, holding the one item
C8_Witness ==
    \E b \in DOMAIN data[0] :
        LET idxs == BatchIndices(shard[0], batch_size, b)
        IN  /\ Len(idxs) = 2
            /\ \E j \in 1..2 : ~annotation[idxs[j]].has_keys \/ ~annotation[idxs[j]].frames.iter
            /\ Len(data[0][b].batch.output) = 1

\* C9: with world_size = 1 and no failed write, when main has returned the
\* output files are exactly the latent paths of the entries that load, one
\* file per such entry holding the latent of that entry, and nothing raised.
C9_OutputsAreLoadableEntries ==
    /\ \A r \in Ranks : pc[r] \notin {"unwinding", "raised"} /\ cause[r] = "none"
    /\ (world_size = 1 /\ pc[0] = "done" /\ \A t \in 1..Len(task_queue[0]) : ~WriteFailed(0, t)) =>
          LET loads == {i \in DOMAIN annotation : EntryLoads(annotation[i])}
          IN  /\ {f.path : f \in files} = {annotation[i].latent : i \in loads}
              /\ Cardinality(files) = Cardinality(loads)
              /\ \A i \in loads :
                    [path |-> annotation[i].latent, latent |-> [video |-> annotation[i].video]] \in files

\* C9 witness: main returned on a manifest of a loadable entry and a missing
\* file, with the one output file
C9_Witness ==
    /\ pc[0] = "done"
    /\ \E i, j \in DOMAIN annotation :
           /\ EntryLoads(annotation[i])
           /\ annotation[j].nframes = 0
    /\ Cardinality(files) = 1

\* C10 (as stated): on every rank the encode calls follow manifest order: of
\* two encoded entries the one with the smaller manifest index came first.
C10_EncodedInManifestOrder ==
    \A r \in Ranks : \A j, k \in 1..Len(encoded[r]) :
        j < k => encoded[r][j] < encoded[r][k]

\* the encode loop of rank r has pulled and finished every batch
InputExhausted(r) ==
    rcvd_idx[r] >= NumBatches(shard[r], batch_size) /\ pos[r] > SampleLen(r)

\* C11: while the encode loop runs, the main thread never waits for a write:
\* with an item at hand the encode-and-submit step can be taken whatever the
\* pool is doing, with the input exhausted the loop can end, and main is in
\* the drain (the one place that waits for writes) only after the last batch.
C11_SubmitNeverBlocks ==
    \A r \in Ranks :
        /\ (pc[r] = "encoding" /\ pos[r] <= SampleLen(r)) => ENABLED EncodeItem(r)
        /\ (pc[r] = "encoding" /\ InputExhausted(r)) => ENABLED LoopEnd(r)
        /\ pc[r] = "draining" => InputExhausted(r)

\* C11 witness: an item is at hand while 16 writes run and another is queued
C11_Witness ==
    /\ pc[0] = "encoding"
    /\ pos[0] <= SampleLen(0)
    /\ Cardinality(Running(0)) = 16
    /\ Cardinality(Pending(0)) >= 1

\* the worker states of the specification: INIT, LOADED (model and loader
\* built, at the first barrier), ENCODING, DRAINING (draining, then at the
\* second barrier), DONE; a worker whose encode raised has left the sequence
Phase(r) ==
    CASE pc[r] = "init" -> 0
      [] pc[r] = "barrier1" -> 1
      [] pc[r] = "encoding" -> 2
      [] pc[r] \in {"draining", "barrier2"} -> 3
      [] pc[r] = "done" -> 4
      [] OTHER -> 5

PhaseNext(r) ==
    CASE pc'[r] = "init" -> 0
      [] pc'[r] = "barrier1" -> 1
      [] pc'[r] = "encoding" -> 2
      [] pc'[r] \in {"draining", "barrier2"} -> 3
      [] pc'[r] = "done" -> 4
      [] OTHER -> 5

\* every step keeps a worker's state, moves it to the next state of the
\* sequence, or (an uncaught exception) takes it out of ENCODING or DRAINING
\* for good
PhaseStep ==
    \A r \in Ranks :
        \/ PhaseNext(r) = Phase(r)
        \/ Phase(r) < 4 /\ PhaseNext(r) = Phase(r) + 1
        \/ Phase(r) \in {2, 3} /\ PhaseNext(r) = 5

\* C12: each worker passes through INIT, LOADED, ENCODING, DRAINING, DONE in
\* that order, never skipping a state and never going back, and no worker has
\* entered the encode loop or encoded anything while some worker has not yet
\* built its model and loader and arrived at the first barrier.
C12_PhasesInOrderBehindBarrier ==
    /\ [][PhaseStep]_vars
    /\ [](\A r \in Ranks : (Phase(r) >= 2 \/ Len(encoded[r]) > 0) =>
              \A q \in Ranks : Phase(q) >= 1)

\* C12 witness: with two workers, one is DONE having encoded, so it has been
\* through every state, and so has the other
C12_Witness ==
    /\ world_size = 2
    /\ pc[0] = "done"
    /\ pc[1] = "done"
    /\ Len(encoded[0]) > 0
    /\ Len(encoded[1]) > 0

\* C13: no worker is DONE unless every worker has exhausted its input, has
\* had every persistence task it submitted finish, and is at or past the
\* second barrier.
C13_DoneOnlyWhenAllDrained ==
    \A r \in Ranks : pc[r] = "done" =>
        \A q \in Ranks :
            /\ pc[q] \in {"barrier2", "done"}
            /\ InputExhausted(q)
            /\ Len(task_queue[q]) = Len(encoded[q])
            /\ \A t \in 1..Len(task_queue[q]) : task_queue[q][t].state = "FINISHED"

\* C13 witness: one worker is DONE while the other, with tasks of its own all
\* finished, is still at the second barrier
C13_Witness ==
    /\ world_size = 2
    /\ pc[0] = "done"
    /\ pc[1] = "barrier2"
    /\ Len(task_queue[0]) > 0
    /\ Len(task_queue[1]) > 0

\* the requested indices below the length of the video, in increasing order
Available ==
    LET list == ld.frame_indexs.list
        below(i) == i < ld.nframes
    IN  SelectSeq(list, below)

\* the call has returned, its index list was a list, and no requested frame
\* of the video failed to convert
Loaded ==
    /\ ld.pc = "returned"
    /\ ld.frame_indexs.iter
    /\ \A k \in 1..Len(Available) : Available[k] # ld.corrupt

\* the frames the claim names: the first ((min(n, N) - 1)//8)*8 + 1 of the
\* available requested indices
KeptFrames ==
    LET n == Len(Available)
    IN  SubSeq(Available, 1, ((Min(n, ld.frame_number) - 1) \div 8) * 8 + 1)

\* C14 as stated, for every budget N >= 0: absence when n = 0, otherwise the
\* frames at the first ((min(n, N) - 1)//8)*8 + 1 available requested indices.
C14_CapThenAlign ==
    Loaded =>
        IF Len(Available) = 0
        THEN ld.result = "None"
        ELSE ld.result = "tensor" /\ ld.frames = KeptFrames

\* C14 amended: the same for a budget N >= 1; with N = 0 the cap leaves no
\* frame and the call returns absence.
C14_CapThenAlignPositiveBudget ==
    Loaded =>
        IF Len(Available) = 0 \/ ld.frame_number = 0
        THEN ld.result = "None"
        ELSE /\ ld.result = "tensor"
             /\ ld.frames = KeptFrames
             /\ ld.capped = Min(Len(Available), ld.frame_number)
             /\ Len(ld.frames) = ((ld.capped - 1) \div 8) * 8 + 1

\* C14 witness: 18 requested frames are read, the cap keeps 12 of them and
\* the alignment 9: each discards trailing frames
C14_Witness ==
    /\ Loaded
    /\ ld.nframes = 18
    /\ ld.frame_number = 12
    /\ Len(ld.frame_indexs.list) = 18
    /\ ld.capped = 12
    /\ ld.result = "tensor"
    /\ Len(ld.frames) = 9

\* C15: for a non-empty strictly increasing requested list with maximum m, at
\* every point of the call at most m + 2 reads of the video have been made,
\* however long the video is, and no collected frame has an index above m.
C15_StopsAfterLastRequested ==
    (ld.frame_indexs.iter /\ Len(ld.frame_indexs.list) > 0) =>
        LET m == ld.frame_indexs.list[Len(ld.frame_indexs.list)]
        IN  /\ ld.reads <= m + 2
            /\ \A k \in 1..Len(ld.frames) : ld.frames[k] <= m

\* C15 witness: the video has 18 frames, the last requested index is 7, and
\* the call returned frames after exactly 7 + 2 reads
C15_Witness ==
    /\ ld.pc = "returned"
    /\ ld.nframes = 18
    /\ ld.frame_indexs.list = <<3, 5, 7>>
    /\ ld.reads = 9
    /\ ld.result = "tensor"

\* C16: whenever the call has returned after opening the capture, the capture
\* was released and the result is a tensor or the absence value, never an
\* exception.
C16_ReleasedAndNeverRaises ==
    (ld.pc = "returned" /\ ld.opened) =>
        /\ ld.releases >= 1
        /\ ld.result \in {"tensor", "None"}

\* C16 witness: converting requested frame 3 raised inside the read loop; the
\* except clause released the capture and absence was returned
C16_Witness ==
    /\ ld.pc = "returned"
    /\ ld.opened
    /\ ld.corrupt = 3
    /\ ld.frame_index = 3
    /\ Len(ld.frames) = 3
    /\ ld.releases = 1
    /\ ld.result = "None"

\* batches handed to the loader workers of rank r and not yet pulled by main
Outstanding(r) == send_idx[r] - rcvd_idx[r]

\* C17 as stated: at most 2 batches are produced or in production and not
\* yet pulled by the encode loop.
C17_AtMostTwoAhead ==
    \A r \in Ranks : Outstanding(r) <= 2

\* C17 amended: at most prefetch_factor * num_workers = 12 batches are produced
\* or in production and not yet pulled, and those produced are among them.
C17_AtMostTwoPerWorkerAhead ==
    \A r \in Ranks :
        /\ Outstanding(r) <= prefetch_factor * num_workers
        /\ DOMAIN data[r] \subseteq rcvd_idx[r]..(send_idx[r] - 1)

\* C17 witness: 12 decoded batches wait for the encode loop, which has pulled
\* none yet, and a 13th batch remains
C17_Witness ==
    /\ pc[0] = "encoding"
    /\ rcvd_idx[0] = 0
    /\ Cardinality(DOMAIN data[0]) = 12
    /\ NumBatches(shard[0], batch_size) > 12

\* video and output_path are the two paths of one manifest entry
SameEntry(video, output_path) ==
    \E i \in DOMAIN annotation :
        annotation[i].video = video /\ annotation[i].latent = output_path

\* the two lists of a collated batch have one length and pair up by position
BatchPaired(batch) ==
    /\ Len(batch.input) = Len(batch.output)
    /\ \A k \in 1..Len(batch.input) : SameEntry(batch.input[k].video, batch.output[k])

\* C18: every persistence task holds the latent of a video and the output
\* path of the same manifest entry, and in every batch the loader produced,
\* pulled or not, the input list and the output list have the same length and
\* position k of both comes from the same entry, whatever entries were dropped.
C18_LatentPairedWithItsPath ==
    \A r \in Ranks :
        /\ \A t \in Tasks(r) :
               SameEntry(task_queue[r][t].latent.video, task_queue[r][t].output_path)
        /\ BatchPaired(sample[r])
        /\ \A b \in DOMAIN data[r] : BatchPaired(data[r][b].batch)

\* C18 witness: in a batch of two entries the first was dropped (its video
\* does not load) and the second was encoded and submitted with its own path
C18_Witness ==
    /\ batch_size = 2
    /\ 1 \in DOMAIN annotation
    /\ annotation[0].nframes = 0
    /\ Len(sample[0].input) = 1
    /\ Len(task_queue[0]) >= 1
    /\ task_queue[0][1].latent.video = annotation[1].video
    /\ task_queue[0][1].output_path = annotation[1].latent

\* rank r has submitted a write that never returns
HasStalledWrite(r) ==
    \E t \in Tasks(r) : task_queue[r][t].output_path \in stalled

\* some entry whose video loads has an output path whose write never returns
StalledEntryLoads ==
    \E i \in DOMAIN annotation :
        annotation[i].latent \in stalled /\ annotation[i].nframes > 0

\* C19: when every write returns, every worker is eventually DONE; when the
\* write of a loadable entry never returns, no worker is ever DONE, a worker
\* that waits in the drain for that write never leaves the drain, and some
\* worker ends up in the drain for ever.
C19_AllDoneUnlessAWriteHangs ==
    /\ (stalled = {}) => <>(\A r \in Ranks : pc[r] = "done")
    /\ [](\A r \in Ranks : HasStalledWrite(r) => \A q \in Ranks : pc[q] # "done")
    /\ [][\A r \in Ranks : (pc[r] = "draining" /\ HasStalledWrite(r))
                               => pc'[r] = "draining"]_vars
    /\ StalledEntryLoads => <>[](\E r \in Ranks : pc[r] = "draining")

\* C19 witness: every write returned and both workers, each with writes of
\* its own, are DONE
C19_Witness ==
    /\ world_size = 2
    /\ stalled = {}
    /\ \A r \in Ranks : pc[r] = "done" /\ Len(task_queue[r]) > 0

\* an exception of encode or of the loader has left the loop of rank r
Failed(r) == pc[r] \in {"unwinding", "raised"}

\* C20: once encode (or the pull of a batch) raised on a worker, that worker
\* encodes and submits nothing more; the exception leaves main only when every
\* task submitted before it has finished; the worker is never at or past the
\* second barrier; and no worker at all is DONE.
C20_FatalErrorJoinsPoolAndBlocksDone ==
    /\ [][\A r \in Ranks : Failed(r) =>
              /\ encoded'[r] = encoded[r]
              /\ Len(task_queue'[r]) = Len(task_queue[r])
              /\ Failed(r)']_vars
    /\ [](\A r \in Ranks : Failed(r) <=> cause[r] \in {"encode", "loader"})
    /\ [](\A r \in Ranks : pc[r] = "raised" =>
              \A t \in Tasks(r) : task_queue[r][t].state = "FINISHED")
    /\ []((\E r \in Ranks : Failed(r)) => \A q \in Ranks : pc[q] # "done")

\* C20 witness: on rank 0 encode raised after one latent had been submitted;
\* its write has finished, the exception has left main, and rank 1 waits at
\* the second barrier
C20_Witness ==
    /\ world_size = 2
    /\ pc[0] = "raised"
    /\ cause[0] = "encode"
    /\ Len(task_queue[0]) = 1
    /\ task_queue[0][1].state = "FINISHED"
    /\ pc[1] = "barrier2"

====
